---------------------------- MODULE Spec2Model ----------------------------
(***************************************************************************)
(* The article store of go-spring (main.go): a package-level slice of      *)
(* articles and a next-ID counter guarded by one sync.RWMutex, mutated by  *)
(* the HTTP handlers and mirrored to articles.gob by saveArticles, which   *)
(* every successful mutation starts in a goroutine of its own.             *)
(*                                                                         *)
(* Timestamps are instants on a logical wall clock (one tick = one hour).  *)
(* The persisted file is a sequence of cells; one gob message is one       *)
(* Write of a run of cells at the writer's own file offset.                *)
(***************************************************************************)
EXTENDS Integers, Sequences, FiniteSets, TLC

(***************************************************************************)
(* Bounds of the model.                                                    *)
(***************************************************************************)
\* requests the handlers accept in one run
MaxOps == 2
\* ticks the wall clock can advance in one run
MaxClock == 1

\* the request goroutines that can be in flight together
Handlers == {1, 2}
\* the text values a request body can carry for title / desc / content
Texts == {"", "x"}

\* goroutine ids: the request goroutines are Handlers, main is MainPid,
\* the k-th call of saveArticles runs as SavePid(k); NoPid is no goroutine
NoPid == 0
MainPid == 100
SavePid(k) == MainPid + k

(***************************************************************************)
(* type Article                                                            *)
(***************************************************************************)
Article(id, title, desc, content, created, updated) ==
    [ID |-> id, Title |-> title, Desc |-> desc, Content |-> content,
     Created |-> created, Updated |-> updated]

\* the zero value of Article (what json.Decode starts from)
ZeroArticle == Article(0, "", "", "", 0, 0)

\* the literal of createSampleData; t is what time.Now() returns while it
\* runs (its six calls fall within one tick of the model's clock)
SampleArticles(t) ==
    << Article(1, "Introduction to Go",
               "Learn the basics of Go programming language",
               "Go is a statically typed, compiled programming language designed at Google. It's syntactically similar to C, but with memory safety, garbage collection, structural typing, and CSP-style concurrency.",
               t - 24, t - 24),
       Article(2, "Building REST APIs with Go",
               "A comprehensive guide to creating REST APIs in Go",
               "REST APIs are a fundamental part of modern web development. Go provides excellent support for building fast and efficient web services with its built-in net/http package and third-party routers like Gorilla Mux.",
               t - 12, t - 12),
       Article(3, "Database Integration in Go",
               "How to connect Go applications with databases",
               "Go supports various databases including SQLite, PostgreSQL, MySQL, MariaDB, and more. This article covers best practices for database integration in Go applications.",
               t - 6, t - 6) >>

\* a fault: the counter seeded with the number of sample articles
SampleCount == Len(SampleArticles(0))

SampleNextID == 4

(***************************************************************************)
(* Sequence helpers.                                                       *)
(***************************************************************************)
Range(s) == {s[i] : i \in 1..Len(s)}

IDs(s) == {s[i].ID : i \in 1..Len(s)}

IDSeq(s) == [i \in 1..Len(s) |-> s[i].ID]

\* a fault: the search that answers the last index when the loop falls
\* through
IndexOrLast(s, id) ==
    IF \E i \in 1..Len(s) : s[i].ID = id
    THEN CHOOSE i \in 1..Len(s) :
            /\ s[i].ID = id
            /\ \A j \in 1..(i - 1) : s[j].ID # id
    ELSE Len(s)

\* for i, article := range articles { if article.ID == id {...} }: the first
\* index whose ID matches, 0 when the loop falls through
IndexOf(s, id) ==
    IF \E i \in 1..Len(s) : s[i].ID = id
    THEN CHOOSE i \in 1..Len(s) :
            /\ s[i].ID = id
            /\ \A j \in 1..(i - 1) : s[j].ID # id
    ELSE 0

\* a fault: the removal that cuts the slice at the element, articles[:i]
RemoveFrom(s, i) == SubSeq(s, 1, i - 1)

\* a fault: the removal that moves the last element into the gap, which
\* does not keep the order
RemoveSwapLast(s, i) ==
    IF i = Len(s) THEN SubSeq(s, 1, Len(s) - 1)
    ELSE [j \in 1..(Len(s) - 1) |-> IF j = i THEN s[Len(s)] ELSE s[j]]


\* append(articles[:i], articles[i+1:]...)
RemoveAt(s, i) == [j \in 1..(Len(s) - 1) |-> IF j < i THEN s[j] ELSE s[j + 1]]

Max(a, b) == IF a >= b THEN a ELSE b

(***************************************************************************)
(* encoding/gob of struct{Articles []Article; NextID int}.                 *)
(* A stream is the type descriptors, one message each, then one value      *)
(* message.  A value message is length-prefixed; a struct field holding    *)
(* the zero value (an empty slice, the integer 0) is not sent.             *)
(***************************************************************************)
Cell(k, n, a) == [k |-> k, n |-> n, a |-> a]

Hole == Cell("hole", 0, ZeroArticle)

\* the type descriptors gob sends before the first value (the snapshot
\* struct, []Article, Article, time.Time), taken as one message
WireTypes == << "types" >>

TypeMsg(i) == << Cell("type", i, ZeroArticle) >>

\* a fault: the snapshot struct with its counter unexported, which gob
\* does not send
ValueBodyNoNextID(data) ==
    (IF Len(data.Articles) > 0
       THEN << Cell("cnt", Len(data.Articles), ZeroArticle) >>
            \o [i \in 1..Len(data.Articles) |-> Cell("art", 0, data.Articles[i])]
       ELSE << >>)
    \o << Cell("end", 0, ZeroArticle) >>

ValueBody(data) ==
    (IF Len(data.Articles) > 0
       THEN << Cell("cnt", Len(data.Articles), ZeroArticle) >>
            \o [i \in 1..Len(data.Articles) |-> Cell("art", 0, data.Articles[i])]
       ELSE << >>)
    \o (IF data.NextID # 0
          THEN << Cell("nid", data.NextID, ZeroArticle) >>
          ELSE << >>)
    \o << Cell("end", 0, ZeroArticle) >>

ValueMsg(data) ==
    << Cell("len", Len(ValueBody(data)), ZeroArticle) >> \o ValueBody(data)

\* the messages encoder.Encode(data) writes, one Write call each
GobMessages(data) ==
    [i \in 1..(Len(WireTypes) + 1) |->
        IF i <= Len(WireTypes) THEN TypeMsg(i) ELSE ValueMsg(data)]

RECURSIVE Flatten(_)
Flatten(ms) == IF ms = << >> THEN << >> ELSE Head(ms) \o Flatten(Tail(ms))

\* the bytes of a file a save wrote from start to end without interference
Encode(data) == Flatten(GobMessages(data))

\* a fault: the file opened with O_APPEND, every Write going to its end
WriteAtEnd(bytes, off, msg) == bytes \o msg

\* file.Write(msg) at offset off: cells (off, off + Len(msg)] are replaced,
\* a gap between the old end of the file and off reads as zero bytes
WriteAt(bytes, off, msg) ==
    [p \in 1..Max(Len(bytes), off + Len(msg)) |->
        IF p > off /\ p <= off + Len(msg) THEN msg[p - off]
        ELSE IF p <= Len(bytes) THEN bytes[p]
        ELSE Hole]

DecodeError == [ok |-> FALSE, Articles |-> << >>, NextID |-> 0]

\* decoder.Decode(&data) on a fresh data: reads the type descriptors and
\* the first value message; whatever follows it in the file is not read
Decode(bytes) ==
    LET h == Len(WireTypes)
    IN  IF Len(bytes) < h + 1 THEN DecodeError
        ELSE IF \E i \in 1..h : bytes[i] # Cell("type", i, ZeroArticle)
        THEN DecodeError
        ELSE IF bytes[h + 1].k # "len" \/ Len(bytes) < h + 1 + bytes[h + 1].n
        THEN DecodeError
        ELSE
          LET n    == bytes[h + 1].n
              body == SubSeq(bytes, h + 2, h + 1 + n)
              c    == IF n > 0 /\ body[1].k = "cnt" THEN body[1].n ELSE 0
              a0   == IF c > 0 THEN 1 ELSE 0
              hasN == n > a0 + c /\ body[a0 + c + 1].k = "nid"
              e    == a0 + c + (IF hasN THEN 1 ELSE 0) + 1
          IN  IF /\ n = e
                 /\ body[e].k = "end"
                 /\ \A i \in 1..c : body[a0 + i].k = "art"
              THEN [ok |-> TRUE,
                    Articles |-> [i \in 1..c |-> body[a0 + i].a],
                    NextID |-> IF hasN THEN body[a0 + c + 1].n ELSE 0]
              ELSE DecodeError

(***************************************************************************)
(* State.                                                                  *)
(***************************************************************************)
VARIABLES
    articles,   \* var articles []Article
    nextID,     \* var nextID int
    mutexW,     \* articlesMutex: the goroutine inside Lock()..Unlock()
    mutexR,     \* articlesMutex: the goroutines inside RLock()..RUnlock()
    file,       \* articles.gob: [exists, readable, bytes]
    mainpc,     \* where main is: "load", "seed", "save", "serve"
    hpc,        \* where each request goroutine is
    hreq,       \* its request: [op, id, body]
    hloc,       \* its locals: [article, status]
    saves,      \* the calls of saveArticles, in the order they were started
    clock,      \* what time.Now() returned last
    nops,       \* requests accepted so far
    resp,       \* the response written last
    issued,     \* history: the ids createArticle returned, in lock order
    inserted,   \* history: the ids of every article, in insertion order
    removed,    \* history: the ids deleteArticle removed
    lin,        \* history: the operations applied one at a time, in lock order
    applied     \* history: what the store of this run of the program held at
                \* its start and as each step that set lin anew left it, a
                \* mutation that starts a save among them

vars == << articles, nextID, mutexW, mutexR, file, mainpc, hpc, hreq, hloc,
           saves, clock, nops, resp, issued, inserted, removed, lin, applied >>

store   == << articles, nextID >>
mutex   == << mutexW, mutexR >>
history == << issued, inserted, removed, lin, applied >>

\* the snapshots the store has held in this run of the program
past == { applied[i] : i \in 1..Len(applied) }

Snapshot(as, n) == [Articles |-> as, NextID |-> n]

Body(t, d, c) == [Title |-> t, Desc |-> d, Content |-> c]

NoReq == [op |-> "none", id |-> 0, body |-> Body("", "", "")]

NoLoc == [article |-> ZeroArticle, status |-> 0]

\* the text of a response: Response.Message, or the line http.Error writes
Message(op, status) ==
    IF status = 404 THEN "Article not found"
    ELSE CASE op = "list"   -> "Articles retrieved successfully"
           [] op = "get"    -> "Article retrieved successfully"
           [] op = "create" -> "Article created successfully"
           [] op = "update" -> "Article updated successfully"
           [] op = "delete" -> "Article deleted successfully"
           [] OTHER         -> ""

InvalidID == "Invalid article ID"

InvalidJSON == "Invalid JSON format"

FieldsRequired == "Title, description, and content are required"

Response(op, id, status, data) ==
    [op |-> op, id |-> id, status |-> status, msg |-> Message(op, status),
     data |-> data]

NoResp == Response("none", 0, 0, << >>)

\* the ids a request path can name
ReqIDs == 1..(SampleNextID + 1)

\* the bodies a PUT can carry
Bodies == { Body(t, d, c) : t \in Texts, d \in Texts, c \in Texts }

\* the requests of the runs in which the saves run too: they name one
\* sample article, which is missing once it has been deleted
FewIDs == {2}

FewBodies == { Body("x", "", "") }

(***************************************************************************)
(* The files a start can find: none (the first run), one that cannot be    *)
(* opened, one cut short or emptied by a run that died while writing, and  *)
(* complete snapshots earlier runs wrote.                                  *)
(***************************************************************************)
File(e, r, b) == [exists |-> e, readable |-> r, bytes |-> b]

\* a snapshot an earlier run wrote after it deleted articles 1 and 3 and
\* created article 4
LoadedSnapshot ==
    Snapshot(<< SampleArticles(-3)[2], Article(4, "x", "x", "x", -2, -1) >>,
             SampleNextID + 1)

PriorSnapshots ==
    { Snapshot(<< >>, SampleNextID),
      Snapshot(SampleArticles(-3), SampleNextID),
      LoadedSnapshot,
      Snapshot(<< Article(4, "x", "x", "x", -2, -2) >>, SampleNextID + 2) }

BootFiles ==
    { File(FALSE, FALSE, << >>) }
    \cup { File(TRUE, FALSE, Encode(Snapshot(<< >>, SampleNextID))) }
    \cup { File(TRUE, TRUE, << >>) }
    \cup UNION { { File(TRUE, TRUE, SubSeq(Encode(s), 1, n)) :
                      n \in 1..(Len(Encode(s)) - 1) } : s \in PriorSnapshots }
    \cup { File(TRUE, TRUE, << Hole >> \o Tail(Encode(s))) : s \in PriorSnapshots }
    \cup { File(TRUE, TRUE, Encode(s)) : s \in PriorSnapshots }

\* the process as the Go runtime hands it to main
InitBoot ==
    /\ articles = << >>
    /\ nextID = 1
    /\ mutexW = NoPid
    /\ mutexR = {}
    /\ file \in BootFiles
    /\ mainpc = "load"
    /\ hpc = [h \in Handlers |-> "idle"]
    /\ hreq = [h \in Handlers |-> NoReq]
    /\ hloc = [h \in Handlers |-> NoLoc]
    /\ saves = << >>
    /\ clock = 0
    /\ nops = 0
    /\ resp = NoResp
    /\ issued = << >>
    /\ inserted = << >>
    /\ removed = {}
    /\ lin = Snapshot(<< >>, 1)
    /\ applied = << Snapshot(<< >>, 1) >>

(***************************************************************************)
(* sync.RWMutex: Lock() first shuts out new readers and other writers,     *)
(* then waits for the readers inside to leave.                             *)
(***************************************************************************)
CanLock == mutexW = NoPid

LockClear == mutexR = {}

\* a fault: RLock() that does not wait for the writer
RLockIgnoresWriter == TRUE

CanRLock == mutexW = NoPid

(***************************************************************************)
(* time.Now(): the wall clock has not moved since it was read last, or it  *)
(* has moved on by a tick.                                                 *)
(***************************************************************************)
Now == { t \in {clock, clock + 1} : t <= MaxClock }

(***************************************************************************)
(* Start-up: initDatabase.                                                 *)
(***************************************************************************)
\* os.Open(dataFile) succeeds
CanOpen(f) == f.exists /\ f.readable

\* a fault: the load that takes the articles and leaves nextID as it was
LoadArticlesOnly(f, as, n) ==
    IF ~CanOpen(f) THEN [err |-> TRUE, Articles |-> as, NextID |-> n]
    ELSE LET d == Decode(f.bytes)
         IN  IF ~d.ok THEN [err |-> TRUE, Articles |-> as, NextID |-> n]
             ELSE [err |-> FALSE, Articles |-> d.Articles, NextID |-> n]

\* what loadArticles leaves in (articles, nextID) and whether it returns nil
LoadResult(f, as, n) ==
    IF ~CanOpen(f) THEN [err |-> TRUE, Articles |-> as, NextID |-> n]
    ELSE LET d == Decode(f.bytes)
         IN  IF ~d.ok THEN [err |-> TRUE, Articles |-> as, NextID |-> n]
             ELSE [err |-> FALSE, Articles |-> d.Articles, NextID |-> d.NextID]

loadArticles ==
    /\ mainpc = "load"
    /\ CanLock /\ LockClear
    /\ LET r == LoadResult(file, articles, nextID)
       IN  /\ articles' = r.Articles
           /\ nextID' = r.NextID
           /\ lin' = Snapshot(r.Articles, r.NextID)
           /\ applied' = Append(applied, lin')
           /\ inserted' = IDSeq(r.Articles)
           /\ mainpc' = IF r.err THEN "seed" ELSE "serve"
    /\ UNCHANGED << mutex, file, hpc, hreq, hloc, saves, clock, nops, resp,
                    issued, removed >>

NewSave(sync) ==
    [pc |-> "create", sync |-> sync, off |-> 0, nmsg |-> 0,
     data |-> Snapshot(<< >>, 0), err |-> FALSE]

\* a call that has returned: its file, encoder and data are gone, its
\* error went to the caller
DoneSave(sync, err) ==
    [pc |-> "done", sync |-> sync, off |-> 0, nmsg |-> 0,
     data |-> Snapshot(<< >>, 0), err |-> err]

createSampleData ==
    /\ mainpc = "seed"
    /\ CanLock /\ LockClear
    /\ \E now \in Now :
         /\ articles' = SampleArticles(now)
         /\ lin' = Snapshot(SampleArticles(now), SampleNextID)
         /\ applied' = Append(applied, lin')
         /\ inserted' = IDSeq(SampleArticles(now))
         /\ clock' = now
    /\ nextID' = SampleNextID
    /\ saves' = Append(saves, NewSave(TRUE))
    /\ mainpc' = "save"
    /\ UNCHANGED << mutex, file, hpc, hreq, hloc, nops, resp, issued, removed >>

\* a fault: initDatabase that goes on while its saveArticles still runs
initDoneNoWait ==
    /\ mainpc = "save"
    /\ mainpc' = "serve"
    /\ UNCHANGED << store, mutex, file, hpc, hreq, hloc, saves, clock, nops,
                    resp, history >>

\* saveArticles() has returned to initDatabase, which drops its error
initDone ==
    /\ mainpc = "save"
    /\ \A k \in 1..Len(saves) : saves[k].sync => saves[k].pc = "done"
    /\ mainpc' = "serve"
    /\ UNCHANGED << store, mutex, file, hpc, hreq, hloc, saves, clock, nops,
                    resp, history >>

\* what initDatabase leaves when it finds file f at time t and its own
\* saveArticles, if it runs, writes the whole stream
Booted(f, t) ==
    LET r == LoadResult(f, << >>, 1)
        seed == Snapshot(SampleArticles(t), SampleNextID)
    IN  IF r.err
        THEN [data |-> seed, file |-> File(TRUE, TRUE, Encode(seed))]
        ELSE [data |-> Snapshot(r.Articles, r.NextID), file |-> f]

\* the process when http.ListenAndServe starts to serve, initDatabase
\* having found file f
Serving(f) ==
    /\ articles = Booted(f, 0).data.Articles
    /\ nextID = Booted(f, 0).data.NextID
    /\ file = Booted(f, 0).file
    /\ lin = Booted(f, 0).data
    /\ applied = << Booted(f, 0).data >>
    /\ inserted = IDSeq(Booted(f, 0).data.Articles)
    /\ mutexW = NoPid
    /\ mutexR = {}
    /\ mainpc = "serve"
    /\ hpc = [h \in Handlers |-> "idle"]
    /\ hreq = [h \in Handlers |-> NoReq]
    /\ hloc = [h \in Handlers |-> NoLoc]
    /\ saves = << >>
    /\ clock = 0
    /\ nops = 0
    /\ resp = NoResp
    /\ issued = << >>
    /\ removed = {}

\* the first run: no file, the sample data
Init == Serving(File(FALSE, FALSE, << >>))

\* a later run: the file holds a snapshot
InitLoaded == Serving(File(TRUE, TRUE, Encode(LoadedSnapshot)))

(***************************************************************************)
(* saveArticles, one call k.                                               *)
(***************************************************************************)
\* os.Create opens with O_RDWR|O_CREATE|O_TRUNC: a file that cannot be
\* opened for reading cannot be created over
CanCreate(f) == ~f.exists \/ f.readable

\* os.Create(dataFile): the file exists and is empty, or the call fails
saveCreate(k) ==
    /\ saves[k].pc = "create"
    /\ \E ok \in {b \in BOOLEAN : b => CanCreate(file)} :
         IF ok
         THEN /\ file' = File(TRUE, TRUE, << >>)
              /\ saves' = [saves EXCEPT ![k].pc = "rlock"]
         ELSE /\ file' = file
              /\ saves' = [saves EXCEPT ![k] = DoneSave(@.sync, TRUE)]
    /\ UNCHANGED << store, mutex, mainpc, hpc, hreq, hloc, clock, nops, resp,
                    history >>

\* a fault: saveArticles that reads the data without articlesMutex.RLock()
saveNoRLock(k) ==
    /\ saves[k].pc = "rlock"
    /\ saves' = [saves EXCEPT ![k].pc = "readA"]
    /\ UNCHANGED << store, mutex, file, mainpc, hpc, hreq, hloc, clock, nops,
                    resp, history >>

\* a fault: RLock() of saveArticles that does not wait for the writer
saveRLockNoWait(k) ==
    /\ saves[k].pc = "rlock"
    /\ mutexR' = mutexR \cup {SavePid(k)}
    /\ saves' = [saves EXCEPT ![k].pc = "readA"]
    /\ UNCHANGED << store, mutexW, file, mainpc, hpc, hreq, hloc, clock, nops,
                    resp, history >>

\* articlesMutex.RLock()
saveRLock(k) ==
    /\ saves[k].pc = "rlock"
    /\ CanRLock
    /\ mutexR' = mutexR \cup {SavePid(k)}
    /\ saves' = [saves EXCEPT ![k].pc = "readA"]
    /\ UNCHANGED << store, mutexW, file, mainpc, hpc, hreq, hloc, clock, nops,
                    resp, history >>

\* a fault: the read lock held for the collection alone and given back
\* before nextID is read
saveReadArticlesUnlock(k) ==
    /\ saves[k].pc = "readA"
    /\ saves' = [saves EXCEPT ![k].pc = "readN", ![k].data.Articles = articles]
    /\ mutexR' = mutexR \ {SavePid(k)}
    /\ UNCHANGED << store, mutexW, file, mainpc, hpc, hreq, hloc, clock, nops,
                    resp, history >>

\* Articles: articles
saveReadArticles(k) ==
    /\ saves[k].pc = "readA"
    /\ saves' = [saves EXCEPT ![k].pc = "readN", ![k].data.Articles = articles]
    /\ UNCHANGED << store, mutex, file, mainpc, hpc, hreq, hloc, clock, nops,
                    resp, history >>

\* a fault: the read lock given back once the data is read, before Encode
saveReadNextIDUnlock(k) ==
    /\ saves[k].pc = "readN"
    /\ saves' = [saves EXCEPT ![k].pc = "write", ![k].data.NextID = nextID]
    /\ mutexR' = mutexR \ {SavePid(k)}
    /\ UNCHANGED << store, mutexW, file, mainpc, hpc, hreq, hloc, clock, nops,
                    resp, history >>

\* NextID: nextID
saveReadNextID(k) ==
    /\ saves[k].pc = "readN"
    /\ saves' = [saves EXCEPT ![k].pc = "write", ![k].data.NextID = nextID]
    /\ UNCHANGED << store, mutex, file, mainpc, hpc, hreq, hloc, clock, nops,
                    resp, history >>

\* encoder.Encode(data): the next message goes to the file at this call's
\* offset, or the Write fails and Encode returns its error
saveWrite(k) ==
    /\ saves[k].pc = "write"
    /\ saves[k].nmsg < Len(GobMessages(saves[k].data))
    /\ \E ok \in BOOLEAN :
         IF ok
         THEN LET msg == GobMessages(saves[k].data)[saves[k].nmsg + 1]
              IN  /\ file' = [file EXCEPT !.bytes = WriteAt(@, saves[k].off, msg)]
                  /\ saves' = [saves EXCEPT ![k].nmsg = @ + 1,
                                            ![k].off = @ + Len(msg)]
         ELSE /\ file' = file
              /\ saves' = [saves EXCEPT ![k].pc = "ret", ![k].err = TRUE]
    /\ UNCHANGED << store, mutex, mainpc, hpc, hreq, hloc, clock, nops, resp,
                    history >>

\* a fault: RUnlock not deferred, and skipped when Encode returns an error
saveReturnNoUnlockOnError(k) ==
    /\ \/ saves[k].pc = "ret"
       \/ /\ saves[k].pc = "write"
          /\ saves[k].nmsg = Len(GobMessages(saves[k].data))
    /\ mutexR' = IF saves[k].err THEN mutexR ELSE mutexR \ {SavePid(k)}
    /\ saves' = [saves EXCEPT ![k] = DoneSave(@.sync, @.err)]
    /\ UNCHANGED << store, mutexW, file, mainpc, hpc, hreq, hloc, clock, nops,
                    resp, history >>

\* Encode has returned: the deferred RUnlock and Close run
saveReturn(k) ==
    /\ \/ saves[k].pc = "ret"
       \/ /\ saves[k].pc = "write"
          /\ saves[k].nmsg = Len(GobMessages(saves[k].data))
    /\ mutexR' = mutexR \ {SavePid(k)}
    /\ saves' = [saves EXCEPT ![k] = DoneSave(@.sync, @.err)]
    /\ UNCHANGED << store, mutexW, file, mainpc, hpc, hreq, hloc, clock, nops,
                    resp, history >>


(***************************************************************************)
(* The handlers' bodies, as functions of what they read.                   *)
(***************************************************************************)
\* a fault: Updated set only when a field was given
UpdateFieldsIfGiven(a, b, now) ==
    [a EXCEPT !.Title   = IF b.Title # "" THEN b.Title ELSE @,
              !.Desc    = IF b.Desc # "" THEN b.Desc ELSE @,
              !.Content = IF b.Content # "" THEN b.Content ELSE @,
              !.Updated = IF b.Title # "" \/ b.Desc # "" \/ b.Content # ""
                          THEN now ELSE @]

\* a fault: the validation that looks at the title alone
MissingTitle(b) == b.Title = ""

\* a fault: the id and created_at of the request body taken over as well,
\* when the body gives an id
UpdateFieldsAndKeys(a, b, now) ==
    [a EXCEPT !.Title   = IF b.Title # "" THEN b.Title ELSE @,
              !.Desc    = IF b.Desc # "" THEN b.Desc ELSE @,
              !.Content = IF b.Content # "" THEN b.Content ELSE @,
              !.ID      = IF b.ID # 0 THEN b.ID ELSE @,
              !.Created = IF b.ID # 0 THEN b.Created ELSE @,
              !.Updated = now]

\* if updateData.X != "" { articles[i].X = updateData.X } for Title, Desc,
\* Content; articles[i].Updated = time.Now()
UpdateFields(a, b, now) ==
    [a EXCEPT !.Title   = IF b.Title # "" THEN b.Title ELSE @,
              !.Desc    = IF b.Desc # "" THEN b.Desc ELSE @,
              !.Content = IF b.Content # "" THEN b.Content ELSE @,
              !.Updated = now]

\* article.Title == "" || article.Desc == "" || article.Content == ""
MissingField(b) == b.Title = "" \/ b.Desc = "" \/ b.Content = ""

\* one whole createArticle / updateArticle / deleteArticle applied to a
\* snapshot at once
ApplyCreate(s, b, created, updated) ==
    Snapshot(Append(s.Articles,
                    Article(s.NextID, b.Title, b.Desc, b.Content, created, updated)),
             s.NextID + 1)

ApplyUpdate(s, id, b, now) ==
    LET i == IndexOf(s.Articles, id)
    IN  IF i = 0 THEN s
        ELSE Snapshot([s.Articles EXCEPT ![i] = UpdateFields(@, b, now)], s.NextID)

ApplyDelete(s, id) ==
    LET i == IndexOf(s.Articles, id)
    IN  IF i = 0 THEN s ELSE Snapshot(RemoveAt(s.Articles, i), s.NextID)

Idle(h) == mainpc = "serve" /\ hpc[h] = "idle" /\ nops < MaxOps

\* an early return: http.Error(w, ..., 400), no lock taken
Reject(h, op, msg) ==
    /\ resp' = [Response(op, 0, 400, << >>) EXCEPT !.msg = msg]
    /\ nops' = nops + 1
    /\ UNCHANGED << store, mutex, file, mainpc, hpc, hreq, hloc, saves, clock,
                    history >>

\* the request goes on to take the lock; the id and the body it carries
\* are drawn where the handler first uses them
Accept(h, op, b, to) ==
    /\ hpc' = [hpc EXCEPT ![h] = to]
    /\ hreq' = [hreq EXCEPT ![h] = [op |-> op, id |-> 0, body |-> b]]
    /\ nops' = nops + 1
    /\ UNCHANGED << store, mutex, file, mainpc, hloc, saves, clock, resp,
                    history >>

(***************************************************************************)
(* POST /articles: createArticle                                           *)
(***************************************************************************)
createBegin(h) ==
    /\ Idle(h)
    /\ \/ Reject(h, "create", InvalidJSON)
       \/ \E b \in Bodies :
            IF MissingField(b)
            THEN Reject(h, "create", FieldsRequired)
            ELSE Accept(h, "create", b, "lock")

\* a fault: a handler that goes on without waiting for the lock to be free
handlerLockNoWait(h) ==
    /\ hpc[h] = "lock"
    /\ mutexW' = h
    /\ hpc' = [hpc EXCEPT ![h] = "body"]
    /\ UNCHANGED << store, mutexR, file, mainpc, hreq, hloc, saves, clock,
                    nops, resp, history >>

\* articlesMutex.Lock(), for the three mutating handlers
handlerLock(h) ==
    /\ hpc[h] = "lock"
    /\ CanLock
    /\ mutexW' = h
    /\ hpc' = [hpc EXCEPT ![h] = IF LockClear THEN "body" ELSE "wait"]
    /\ UNCHANGED << store, mutexR, file, mainpc, hreq, hloc, saves, clock,
                    nops, resp, history >>

handlerLockWait(h) ==
    /\ hpc[h] = "wait"
    /\ LockClear
    /\ hpc' = [hpc EXCEPT ![h] = "body"]
    /\ UNCHANGED << store, mutex, file, mainpc, hreq, hloc, saves, clock,
                    nops, resp, history >>

\* article.ID = nextID
createAssignID(h) ==
    /\ hpc[h] = "body"
    /\ hreq[h].op = "create"
    /\ hloc' = [hloc EXCEPT ![h].article =
                  Article(nextID, hreq[h].body.Title, hreq[h].body.Desc,
                          hreq[h].body.Content, 0, 0)]
    /\ hpc' = [hpc EXCEPT ![h] = "body1"]
    /\ UNCHANGED << store, mutex, file, mainpc, hreq, saves, clock, nops, resp,
                    history >>

\* nextID++; article.Created = time.Now()
createIncrement(h) ==
    /\ hpc[h] = "body1"
    /\ \E now \in Now :
         /\ hloc' = [hloc EXCEPT ![h].article.Created = now]
         /\ clock' = now
    /\ nextID' = nextID + 1
    /\ hpc' = [hpc EXCEPT ![h] = "body2"]
    /\ UNCHANGED << articles, mutex, file, mainpc, hreq, saves, nops, resp,
                    history >>

\* a fault: createArticle that starts no saveArticles
createAppendNoSave(h) ==
    /\ hpc[h] = "body2"
    /\ \E now \in Now :
         LET a == [hloc[h].article EXCEPT !.Updated = now]
         IN  /\ articles' = Append(articles, a)
             /\ hloc' = [hloc EXCEPT ![h] = [article |-> a, status |-> 201]]
             /\ lin' = ApplyCreate(lin, hreq[h].body, a.Created, a.Updated)
             /\ applied' = Append(applied, lin')
             /\ inserted' = Append(inserted, a.ID)
             /\ clock' = now
    /\ hpc' = [hpc EXCEPT ![h] = "ret"]
    /\ UNCHANGED << nextID, mutex, file, mainpc, hreq, nops, resp, issued,
                    removed, saves >>

\* article.Updated = time.Now(); articles = append(articles, article);
\* go func() { saveArticles() }()
createAppend(h) ==
    /\ hpc[h] = "body2"
    /\ \E now \in Now :
         LET a == [hloc[h].article EXCEPT !.Updated = now]
         IN  /\ articles' = Append(articles, a)
             /\ hloc' = [hloc EXCEPT ![h] = [article |-> a, status |-> 201]]
             /\ lin' = ApplyCreate(lin, hreq[h].body, a.Created, a.Updated)
             /\ applied' = Append(applied, lin')
             /\ inserted' = Append(inserted, a.ID)
             /\ clock' = now
    /\ saves' = Append(saves, NewSave(FALSE))
    /\ hpc' = [hpc EXCEPT ![h] = "ret"]
    /\ UNCHANGED << nextID, mutex, file, mainpc, hreq, nops, resp, issued,
                    removed >>

(***************************************************************************)
(* PUT /articles/{id}: updateArticle                                       *)
(***************************************************************************)
updateBegin(h) ==
    /\ Idle(h)
    /\ \/ \E msg \in {InvalidID, InvalidJSON} : Reject(h, "update", msg)
       \/ Accept(h, "update", Body("", "", ""), "lock")

\* a fault: updateArticle that starts a save whether it found the id or not
updateBodySaveAlways(h, ids, bodies) ==
    /\ hpc[h] = "body"
    /\ hreq[h].op = "update"
    /\ \E id \in ids, b \in bodies :
         LET i == IndexOf(articles, id)
         IN  /\ hreq' = [hreq EXCEPT ![h].id = id, ![h].body = b]
             /\ saves' = Append(saves, NewSave(FALSE))
             /\ IF i # 0
                THEN \E now \in Now :
                     /\ articles' = [articles EXCEPT ![i] = UpdateFields(@, b, now)]
                     /\ hloc' = [hloc EXCEPT ![h] =
                                   [article |-> UpdateFields(articles[i], b, now),
                                    status |-> 200]]
                     /\ lin' = ApplyUpdate(lin, id, b, now)
                     /\ applied' = Append(applied, lin')
                     /\ clock' = now
                ELSE /\ UNCHANGED << articles, clock >>
                     /\ hloc' = [hloc EXCEPT ![h].status = 404]
                     /\ lin' = ApplyUpdate(lin, id, b, clock)
                     /\ applied' = Append(applied, lin')
    /\ hpc' = [hpc EXCEPT ![h] = "ret"]
    /\ UNCHANGED << nextID, mutex, file, mainpc, nops, resp, issued, inserted,
                    removed >>

\* the loop over articles of updateArticle, for the id of the path and the
\* updateData of the request body
updateBody(h, ids, bodies) ==
    /\ hpc[h] = "body"
    /\ hreq[h].op = "update"
    /\ \E id \in ids, b \in bodies :
         LET i == IndexOf(articles, id)
         IN  /\ hreq' = [hreq EXCEPT ![h].id = id, ![h].body = b]
             /\ IF i # 0
                THEN \E now \in Now :
                     /\ articles' = [articles EXCEPT ![i] = UpdateFields(@, b, now)]
                     /\ saves' = Append(saves, NewSave(FALSE))
                     /\ hloc' = [hloc EXCEPT ![h] =
                                   [article |-> UpdateFields(articles[i], b, now),
                                    status |-> 200]]
                     /\ lin' = ApplyUpdate(lin, id, b, now)
                     /\ applied' = Append(applied, lin')
                     /\ clock' = now
                ELSE /\ UNCHANGED << articles, saves, clock >>
                     /\ hloc' = [hloc EXCEPT ![h].status = 404]
                     /\ lin' = ApplyUpdate(lin, id, b, clock)
                     /\ applied' = applied
    /\ hpc' = [hpc EXCEPT ![h] = "ret"]
    /\ UNCHANGED << nextID, mutex, file, mainpc, nops, resp, issued, inserted,
                    removed >>

(***************************************************************************)
(* DELETE /articles/{id}: deleteArticle                                    *)
(***************************************************************************)
deleteBegin(h) ==
    /\ Idle(h)
    /\ \/ Reject(h, "delete", InvalidID)
       \/ Accept(h, "delete", Body("", "", ""), "lock")

\* a fault: deleteArticle that gives the lock back before it starts the save
deleteBodyUnlock(h, ids) ==
    /\ hpc[h] = "body"
    /\ hreq[h].op = "delete"
    /\ \E id \in ids :
         LET i == IndexOf(articles, id)
         IN  /\ hreq' = [hreq EXCEPT ![h].id = id]
             /\ lin' = ApplyDelete(lin, id)
             /\ IF i # 0
                THEN /\ articles' = RemoveAt(articles, i)
                     /\ saves' = Append(saves, NewSave(FALSE))
                     /\ applied' = Append(applied, lin')
                     /\ removed' = removed \cup {id}
                     /\ hloc' = [hloc EXCEPT ![h].status = 200]
                     /\ mutexW' = NoPid
                ELSE /\ UNCHANGED << articles, saves, removed, mutexW, applied >>
                     /\ hloc' = [hloc EXCEPT ![h].status = 404]
    /\ hpc' = [hpc EXCEPT ![h] = "ret"]
    /\ UNCHANGED << nextID, mutexR, file, mainpc, clock, nops, resp, issued,
                    inserted >>

\* the loop over articles of deleteArticle, for the id of the path
deleteBody(h, ids) ==
    /\ hpc[h] = "body"
    /\ hreq[h].op = "delete"
    /\ \E id \in ids :
         LET i == IndexOf(articles, id)
         IN  /\ hreq' = [hreq EXCEPT ![h].id = id]
             /\ lin' = ApplyDelete(lin, id)
             /\ IF i # 0
                THEN /\ articles' = RemoveAt(articles, i)
                     /\ saves' = Append(saves, NewSave(FALSE))
                     /\ applied' = Append(applied, lin')
                     /\ removed' = removed \cup {id}
                     /\ hloc' = [hloc EXCEPT ![h].status = 200]
                ELSE /\ UNCHANGED << articles, saves, removed, applied >>
                     /\ hloc' = [hloc EXCEPT ![h].status = 404]
    /\ hpc' = [hpc EXCEPT ![h] = "ret"]
    /\ UNCHANGED << nextID, mutex, file, mainpc, clock, nops, resp, issued,
                    inserted >>

\* a fault: a mutating handler that returns without Unlock()
handlerReturnNoUnlock(h) ==
    /\ hpc[h] = "ret"
    /\ resp' = Response(hreq[h].op, hreq[h].id, hloc[h].status,
                        IF hreq[h].op \in {"create", "update"} /\ hloc[h].status # 404
                        THEN << hloc[h].article >> ELSE << >>)
    /\ issued' = IF hreq[h].op = "create"
                  THEN Append(issued, hloc[h].article.ID) ELSE issued
    /\ hpc' = [hpc EXCEPT ![h] = "idle"]
    /\ hreq' = [hreq EXCEPT ![h] = NoReq]
    /\ hloc' = [hloc EXCEPT ![h] = NoLoc]
    /\ UNCHANGED << store, mutex, file, mainpc, saves, clock, nops, inserted,
                    removed, lin, applied >>

\* json.NewEncoder(w).Encode(response) or http.Error(w, ..., 404); then the
\* deferred articlesMutex.Unlock()
handlerReturn(h) ==
    /\ hpc[h] = "ret"
    /\ resp' = Response(hreq[h].op, hreq[h].id, hloc[h].status,
                        IF hreq[h].op \in {"create", "update"} /\ hloc[h].status # 404
                        THEN << hloc[h].article >> ELSE << >>)
    /\ issued' = IF hreq[h].op = "create"
                  THEN Append(issued, hloc[h].article.ID) ELSE issued
    /\ mutexW' = NoPid
    /\ hpc' = [hpc EXCEPT ![h] = "idle"]
    /\ hreq' = [hreq EXCEPT ![h] = NoReq]
    /\ hloc' = [hloc EXCEPT ![h] = NoLoc]
    /\ UNCHANGED << store, mutexR, file, mainpc, saves, clock, nops, inserted,
                    removed, lin, applied >>

(***************************************************************************)
(* GET /articles and GET /articles/{id}: getAllArticles, getArticle        *)
(***************************************************************************)
listBegin(h) ==
    /\ Idle(h)
    /\ Accept(h, "list", Body("", "", ""), "rlock")

getBegin(h) ==
    /\ Idle(h)
    /\ \/ Reject(h, "get", InvalidID)
       \/ Accept(h, "get", Body("", "", ""), "rlock")

\* articlesMutex.RLock()
handlerRLock(h) ==
    /\ hpc[h] = "rlock"
    /\ CanRLock
    /\ mutexR' = mutexR \cup {h}
    /\ hpc' = [hpc EXCEPT ![h] = "read"]
    /\ UNCHANGED << store, mutexW, file, mainpc, hreq, hloc, saves, clock,
                    nops, resp, history >>

\* what getArticle answers for id on the collection as
GetResponse(as, id) ==
    LET i == IndexOf(as, id)
    IN  IF i # 0 THEN Response("get", id, 200, << as[i] >>)
        ELSE Response("get", id, 404, << >>)

\* Data: articles, written to the response; then the deferred RUnlock
listRead(h) ==
    /\ hpc[h] = "read"
    /\ hreq[h].op = "list"
    /\ resp' = Response("list", 0, 200, articles)
    /\ mutexR' = mutexR \ {h}
    /\ hpc' = [hpc EXCEPT ![h] = "idle"]
    /\ hreq' = [hreq EXCEPT ![h] = NoReq]
    /\ UNCHANGED << store, mutexW, file, mainpc, hloc, saves, clock, nops,
                    history >>

\* the loop over articles of getArticle, for the id of the path; then the
\* deferred RUnlock
getRead(h, ids) ==
    /\ hpc[h] = "read"
    /\ hreq[h].op = "get"
    /\ \E id \in ids : resp' = GetResponse(articles, id)
    /\ mutexR' = mutexR \ {h}
    /\ hpc' = [hpc EXCEPT ![h] = "idle"]
    /\ hreq' = [hreq EXCEPT ![h] = NoReq]
    /\ UNCHANGED << store, mutexW, file, mainpc, hloc, saves, clock, nops,
                    history >>

(***************************************************************************)
(* The specifications.                                                     *)
(***************************************************************************)
Sync(k) == saves[k].sync

\* one step of call k of saveArticles
saveStep(k) ==
    \/ saveCreate(k)
    \/ saveRLock(k)
    \/ saveReadArticles(k)
    \/ saveReadNextID(k)
    \/ saveWrite(k)
    \/ saveReturn(k)

\* one step of request goroutine h, its requests naming ids and carrying
\* update bodies from the sets given
handlerStep(h, ids, bodies) ==
    \/ createBegin(h)
    \/ updateBegin(h)
    \/ deleteBegin(h)
    \/ listBegin(h)
    \/ getBegin(h)
    \/ handlerLock(h)
    \/ handlerLockWait(h)
    \/ createAssignID(h)
    \/ createIncrement(h)
    \/ createAppend(h)
    \/ updateBody(h, ids, bodies)
    \/ deleteBody(h, ids)
    \/ handlerReturn(h)
    \/ handlerRLock(h)
    \/ listRead(h)
    \/ getRead(h, ids)

\* main, from its first statement until http.ListenAndServe
NextBoot ==
    \/ loadArticles
    \/ createSampleData
    \/ \E k \in 1..Len(saves) : saveStep(k)
    \/ initDone

SpecBoot == InitBoot /\ [][NextBoot]_vars

\* the handlers alone: the request goroutines run, the goroutines they
\* start for saveArticles are not scheduled
NextStore ==
    \/ \E h \in Handlers : handlerStep(h, ReqIDs, Bodies)

SpecStore == (Init \/ InitLoaded) /\ [][NextStore]_vars

\* the handlers and the saves they start
Next ==
    \/ \E k \in 1..Len(saves) : saveStep(k)
    \/ \E h \in Handlers : handlerStep(h, FewIDs, FewBodies)

Spec == Init /\ [][Next]_vars

(***************************************************************************)
(* Where a goroutine is with respect to articlesMutex.                     *)
(***************************************************************************)
\* between Lock() and the deferred Unlock()
Writing(h) == hpc[h] \in {"body", "body1", "body2", "ret"}

\* between RLock() and the deferred RUnlock() of a reading handler
Reading(h) == hpc[h] = "read"

\* between RLock() and the deferred RUnlock() of saveArticles
SaveReading(k) == saves[k].pc \in {"readA", "readN", "write", "ret"}

\* createArticle has read nextID into article.ID and not yet returned
Assigned(h) == hreq[h].op = "create" /\ hpc[h] \in {"body1", "body2", "ret"}

Quiet == \A h \in Handlers : hpc[h] = "idle"

\* the ids of s that are live, in the order of s
Surviving(s, live) == SelectSeq(s, LAMBDA id : id \in live)

(***************************************************************************)
(* Identifiers.                                                            *)
(***************************************************************************)
\* C1: the ids that the successful Creates return are pairwise distinct and
\* strictly increasing in the order in which the Creates hold the write
\* lock; each Create returns the value nextID had when the Create read it,
\* and leaves nextID greater by exactly one.
C1_CreateIds ==
    /\ \A i, j \in 1..Len(issued) : i < j => issued[i] < issued[j]
    /\ \A i \in 1..(Len(issued) - 1) : issued[i + 1] = issued[i] + 1
    /\ \A h \in Handlers :
         hreq[h].op = "create" =>
           /\ hpc[h] = "body1" => hloc[h].article.ID = nextID
           /\ hpc[h] \in {"body2", "ret"} => hloc[h].article.ID = nextID - 1
    /\ (Len(issued) > 0 /\ \A h \in Handlers : hpc[h] \notin {"body2", "ret"})
         => issued[Len(issued)] = nextID - 1

\* two Creates have returned, the second with the id after the first's
C1_Witness ==
    /\ Len(issued) = 2
    /\ resp.op = "create" /\ resp.status = 201
    /\ resp.data[1].ID = issued[2]
    /\ issued[2] = issued[1] + 1
    /\ nextID = issued[2] + 1

\* C2: in every state of a run, started from the sample data or from a
\* loaded snapshot, the ids of the live articles are pairwise distinct and
\* nextID is greater than every id an article has had in the run, so that a
\* Create is never given an id that Delete has freed.
C2_IdsUnique ==
    /\ \A i, j \in 1..Len(articles) : i # j => articles[i].ID # articles[j].ID
    /\ \A id \in IDs(articles) \cup Range(inserted) \cup Range(issued) \cup removed :
         id < nextID
    /\ removed \cap IDs(articles) = {}
    /\ \A h \in Handlers :
         (hreq[h].op = "create" /\ hpc[h] \in {"body1", "body2"})
           => hloc[h].article.ID \notin removed \cup Range(inserted)

\* a Delete has freed an id and the Create after it was given a greater one
C2_Witness ==
    /\ Quiet
    /\ Len(issued) = 1
    /\ resp.op = "create" /\ resp.status = 201
    /\ \E id \in removed : id < issued[1] /\ id \notin IDs(articles)
    /\ issued[1] \in IDs(articles)

(***************************************************************************)
(* The lock.                                                               *)
(***************************************************************************)
\* C3: the mutations are linearized by the write lock: no handler is between
\* Lock() and Unlock() while another handler is, or while a reading handler
\* or a saveArticles call is between RLock() and RUnlock(); outside the
\* writers' bodies the collection and the counter are what the operations
\* give when they are applied one after the other in lock order; and every
\* list, get and save reads such a state.
C3_Linearized ==
    /\ \A h1, h2 \in Handlers : (h1 # h2 /\ Writing(h1)) => ~Writing(h2)
    /\ \A h \in Handlers :
         Writing(h) =>
           /\ mutexW = h /\ mutexR = {}
           /\ \A h2 \in Handlers : ~Reading(h2)
           /\ \A k \in 1..Len(saves) : ~SaveReading(k)
    /\ (\A h \in Handlers : hpc[h] \notin {"body1", "body2"})
         => Snapshot(articles, nextID) = lin
    /\ \A h \in Handlers : Reading(h) => Snapshot(articles, nextID) = lin
    /\ \A k \in 1..Len(saves) :
         /\ SaveReading(k) => Snapshot(articles, nextID) = lin
         /\ saves[k].pc = "readN" => saves[k].data.Articles = lin.Articles
         /\ saves[k].pc \in {"write", "ret"} => saves[k].data = lin

\* a handler is in its body while a reading handler and a saveArticles
\* call wait for the lock
C3_Witness ==
    \E h1, h2 \in Handlers :
        /\ hpc[h1] = "ret" /\ hreq[h1].op = "create"
        /\ hpc[h2] = "rlock"
        /\ \E k \in 1..Len(saves) : saves[k].pc = "rlock"

(***************************************************************************)
(* The order of the collection.                                            *)
(***************************************************************************)
\* C4: the collection, and every list a handler returns, holds the surviving
\* articles in the order in which they were inserted: Create appends, Update
\* changes an article where it is, Delete takes one out and keeps the order
\* of the others.
C4_InsertionOrder ==
    /\ IDSeq(articles) = Surviving(inserted, IDs(articles))
    /\ resp.op = "list" => IDSeq(resp.data) = Surviving(inserted, IDs(resp.data))

\* a list returned after the Delete of an article that was not the last
C4_Witness ==
    /\ resp.op = "list"
    /\ Len(resp.data) >= 2
    /\ \E id \in removed : id < resp.data[Len(resp.data)].ID
    /\ IDSeq(resp.data) = IDSeq(articles)

(***************************************************************************)
(* Delete and Update.                                                      *)
(***************************************************************************)
\* handler h runs the loop of updateArticle or of deleteArticle in this step
BodyStep(h, op) == hpc[h] = "body" /\ hreq[h].op = op /\ hpc'[h] = "ret"

\* s without the articles whose id is id
Without(s, id) == SelectSeq(s, LAMBDA a : a.ID # id)

C5_Step ==
    \A h \in Handlers :
      /\ BodyStep(h, "delete") =>
           LET id == hreq'[h].id
           IN  IF id \in IDs(articles)
               THEN /\ hloc'[h].status = 200
                    /\ articles' = Without(articles, id)
                    /\ Len(articles') = Len(articles) - 1
                    /\ nextID' = nextID
                    /\ id \in removed'
               ELSE hloc'[h].status = 404
      /\ (BodyStep(h, "delete") /\ hreq'[h].id \in removed)
           => hloc'[h].status = 404
      /\ (BodyStep(h, "update") /\ hreq'[h].id \in removed)
           => hloc'[h].status = 404
      /\ (hpc[h] = "ret" /\ hpc'[h] = "idle" /\ hreq[h].id \in removed
             /\ hloc[h].status = 404)
           => (resp'.status = 404 /\ resp'.id = hreq[h].id /\ resp'.data = << >>)
      /\ (hpc[h] = "read" /\ hreq[h].op = "get" /\ hpc'[h] = "idle"
             /\ resp'.id \in removed)
           => (resp'.status = 404 /\ resp'.data = << >>)

C6_Step ==
    \A h \in Handlers :
      /\ ((BodyStep(h, "update") \/ BodyStep(h, "delete"))
             /\ hreq'[h].id \notin IDs(articles))
           => /\ hloc'[h].status = 404
              /\ UNCHANGED << articles, nextID, saves, file, removed, inserted >>
      /\ (hpc[h] = "ret" /\ hloc[h].status = 404 /\ hpc'[h] = "idle")
           => /\ resp' = [op |-> hreq[h].op, id |-> hreq[h].id, status |-> 404,
                          msg |-> "Article not found", data |-> << >>]
              /\ UNCHANGED << articles, nextID, saves, file, removed, inserted >>

\* C6: a Delete or an Update whose id matches no live article answers 404
\* Not Found and leaves the collection and nextID as they were.
C6_MissingIdNoChange == [][C6_Step]_vars

\* an Update of an id that no article ever had has answered 404
C6_Witness ==
    /\ resp.op = "update" /\ resp.status = 404
    /\ resp.id \notin Range(inserted)
    /\ IDSeq(articles) = inserted
    /\ saves = << >>

C7_Step ==
    \A h \in Handlers :
      (BodyStep(h, "update") /\ hreq'[h].id \in IDs(articles)) =>
        LET id == hreq'[h].id
            b  == hreq'[h].body
        IN  /\ Len(articles') = Len(articles)
            /\ nextID' = nextID
            /\ \A i \in 1..Len(articles) :
                 IF articles[i].ID # id THEN articles'[i] = articles[i]
                 ELSE /\ articles'[i].ID = articles[i].ID
                      /\ articles'[i].Created = articles[i].Created
                      /\ articles'[i].Title =
                           (IF b.Title = "" THEN articles[i].Title ELSE b.Title)
                      /\ articles'[i].Desc =
                           (IF b.Desc = "" THEN articles[i].Desc ELSE b.Desc)
                      /\ articles'[i].Content =
                           (IF b.Content = "" THEN articles[i].Content ELSE b.Content)
                      /\ articles'[i].Updated = clock'
                      /\ articles'[i].Updated >= articles[i].Updated
                      /\ hloc'[h] = [article |-> articles'[i], status |-> 200]

\* C7: an Update of a live article overwrites exactly those of title, desc
\* and content that the request gives non-empty, keeps the others, the id
\* and created_at, leaves the other articles alone, and sets updated_at to
\* the time of the call in every case, also when all three are empty.
C7_UpdateFields == [][C7_Step]_vars

\* an Update with all three fields empty has refreshed updated_at, and
\* nothing else, of a sample article
C7_Witness ==
    \E h \in Handlers :
        /\ hpc[h] = "ret" /\ hreq[h].op = "update" /\ hloc[h].status = 200
        /\ hreq[h].body = Body("", "", "")
        /\ hloc[h].article.Updated > hloc[h].article.Created
        /\ hloc[h].article.Title # ""
        /\ hloc[h].article \in Range(articles)

(***************************************************************************)
(* Validation.                                                             *)
(***************************************************************************)
C8_Step ==
    /\ \A h \in Handlers :
         (hpc[h] = "idle" /\ hpc'[h] # "idle" /\ hreq'[h].op = "create")
           => /\ hreq'[h].body.Title # ""
              /\ hreq'[h].body.Desc # ""
              /\ hreq'[h].body.Content # ""
    /\ (nops' # nops /\ hpc' = hpc)
         => /\ resp'.status = 400 /\ resp'.data = << >>
            /\ UNCHANGED << articles, nextID, mutexW, mutexR, saves, file,
                            issued, inserted, removed, lin >>

\* C8: a Create whose title, desc or content is empty does not go on to the
\* lock: it is answered 400 in a step that appends no article, leaves
\* nextID and the lock as they were and starts no save.
C8_CreateValidation == [][C8_Step]_vars

\* a Create has been turned down for an empty field, the store untouched
C8_Witness ==
    /\ resp.op = "create" /\ resp.status = 400
    /\ resp.msg = FieldsRequired
    /\ Quiet /\ mutexW = NoPid /\ mutexR = {}
    /\ IDSeq(articles) = inserted /\ issued = << >> /\ saves = << >>

(***************************************************************************)
(* Start-up.                                                               *)
(***************************************************************************)
\* file f holds the whole stream of a snapshot and can be opened
Complete(f) ==
    /\ f.exists /\ f.readable
    /\ \E s \in PriorSnapshots : f.bytes = Encode(s)

\* loadArticles runs in this step
LoadStep == mainpc = "load" /\ mainpc' # "load"

\* initDatabase has seeded the store
Seeded == mainpc \in {"save", "serve"} /\ Len(saves) = 1

C9_Inv ==
    /\ Len(saves) <= 1
    /\ \A k \in 1..Len(saves) : Sync(k)
    /\ Seeded =>
         /\ IDSeq(articles) = << 1, 2, 3 >>
         /\ nextID = 4
         /\ \A i \in 1..Len(articles) :
              /\ articles[i].Title # "" /\ articles[i].Content # ""
              /\ articles[i].Created < clock /\ articles[i].Updated < clock
    /\ (mainpc = "serve" /\ Len(saves) = 1) => saves[1].pc = "done"
    /\ mainpc # "serve" =>
         \A h \in Handlers : ~ENABLED handlerStep(h, ReqIDs, Bodies)
    /\ (mainpc = "serve" /\ Len(saves) = 1 /\ ~saves[1].err) =>
         /\ CanOpen(file)
         /\ Decode(file.bytes) =
              [ok |-> TRUE, Articles |-> articles, NextID |-> nextID]

C9_Step ==
    /\ (LoadStep /\ ~Complete(file)) => mainpc' = "seed"
    /\ (mainpc = "seed" /\ mainpc' # "seed") =>
         /\ mainpc' = "save"
         /\ Len(saves') = 1 /\ saves'[1].pc = "create"

\* C9: when the file is missing, cannot be opened or does not hold a whole
\* stream at start-up, initDatabase leaves the store with the sample
\* articles, ids 1, 2, 3 in that order, and nextID 4, and calls saveArticles
\* once, which has returned before a request is served; when that call has
\* written its stream, loading the file gives the same articles and nextID.
C9_SeedOnBadFile == []C9_Inv /\ [][C9_Step]_vars

\* the server serves the sample data and the file holds their stream
C9_Witness ==
    /\ mainpc = "serve"
    /\ Len(saves) = 1 /\ saves[1].pc = "done" /\ ~saves[1].err
    /\ IDSeq(articles) = << 1, 2, 3 >>
    /\ file = File(TRUE, TRUE, Encode(Snapshot(articles, nextID)))

C10_Inv ==
    /\ mainpc = "seed" => (articles = << >> /\ nextID = 1)
    /\ (mainpc = "serve" /\ saves = << >>) =>
         /\ \E s \in PriorSnapshots :
              /\ file = File(TRUE, TRUE, Encode(s))
              /\ articles = s.Articles /\ nextID = s.NextID
         /\ ~ENABLED NextBoot

C10_Step ==
    /\ \A s \in PriorSnapshots :
         (LoadStep /\ file = File(TRUE, TRUE, Encode(s))) =>
           /\ articles' = s.Articles /\ nextID' = s.NextID
           /\ mainpc' = "serve"
           /\ saves' = << >> /\ file' = file
    /\ (LoadStep /\ ~Complete(file)) =>
         /\ articles' = articles /\ nextID' = nextID
         /\ mainpc' = "seed"

\* C10: when the file holds the whole stream of a snapshot at start-up, one
\* with no articles included, initDatabase sets the collection and nextID
\* to that snapshot, seeds nothing and saves nothing; when the decoding
\* fails, loadArticles leaves the collection and nextID as they were until
\* the seeding replaces them.
C10_LoadExact == []C10_Inv /\ [][C10_Step]_vars

\* a snapshot with no articles and nextID 4 has been loaded
C10_Witness ==
    /\ mainpc = "serve" /\ saves = << >>
    /\ articles = << >> /\ nextID = SampleNextID
    /\ file = File(TRUE, TRUE, Encode(Snapshot(<< >>, SampleNextID)))

(***************************************************************************)
(* One run saves, the next run loads.                                      *)
(***************************************************************************)
\* the ids of S in increasing order
SortedIDs(S) ==
    CHOOSE f \in [1..Cardinality(S) -> S] :
        \A i, j \in 1..Cardinality(S) : i < j => f[i] < f[j]

\* the snapshots a run can hold with ids up to the sample's: the ids
\* increase along the collection and nextID is above them all
StoreSnapshots ==
    UNION { { Snapshot([i \in 1..Cardinality(S) |->
                          Article(SortedIDs(S)[i], v[SortedIDs(S)[i]][1],
                                  v[SortedIDs(S)[i]][2], "c",
                                  v[SortedIDs(S)[i]][3], 0)], n) :
                v \in [S -> Texts \X Texts \X {-1, 0}],
                n \in { m \in 1..SampleNextID : \A id \in S : id < m } } :
            S \in SUBSET (1..Len(SampleArticles(0))) }

\* a run that holds snapshot s and has just started one saveArticles; the
\* file is not there yet, or holds what an earlier save wrote
InitCodec ==
    /\ \E s \in StoreSnapshots :
         /\ articles = s.Articles
         /\ nextID = s.NextID
         /\ lin = s
         /\ applied = << s >>
         /\ inserted = IDSeq(s.Articles)
    /\ file \in { File(FALSE, FALSE, << >>),
                  File(TRUE, TRUE, Encode(LoadedSnapshot)) }
    /\ mutexW = NoPid
    /\ mutexR = {}
    /\ mainpc = "serve"
    /\ hpc = [h \in Handlers |-> "idle"]
    /\ hreq = [h \in Handlers |-> NoReq]
    /\ hloc = [h \in Handlers |-> NoLoc]
    /\ saves = << NewSave(FALSE) >>
    /\ clock = 0
    /\ nops = 0
    /\ resp = NoResp
    /\ issued = << >>
    /\ removed = {}

\* the process ends with no saveArticles running, and loadArticles of the
\* next run reads the file into that run's articles and nextID; lin keeps
\* what the run that ended held
restartLoad ==
    /\ mainpc = "serve"
    /\ Quiet
    /\ \A k \in 1..Len(saves) : saves[k].pc = "done"
    /\ LET r == LoadResult(file, << >>, 1)
       IN  /\ articles' = r.Articles
           /\ nextID' = r.NextID
           /\ mainpc' = IF r.err THEN "loadfailed" ELSE "loaded"
    /\ UNCHANGED << mutex, file, hpc, hreq, hloc, saves, clock, nops, resp,
                    history >>

NextCodec ==
    \/ \E k \in 1..Len(saves) : saveStep(k)
    \/ restartLoad

SpecCodec == InitCodec /\ [][NextCodec]_vars

\* C11: what the next run decodes from a file that a save encoded and wrote
\* to its end is the snapshot the save encoded: the same articles in the
\* same order and the same nextID, for snapshots of no, one and several
\* articles; and the decoding of such a file does not fail.
C11_RoundTrip ==
    /\ (mainpc = "loaded" /\ ~saves[1].err) => Snapshot(articles, nextID) = lin
    /\ mainpc = "loadfailed" => saves[1].err
    /\ (saves[1].pc = "done" /\ ~saves[1].err) =>
         Decode(file.bytes) =
           [ok |-> TRUE, Articles |-> lin.Articles, NextID |-> lin.NextID]

\* three articles, one with an empty text, have come back from the file
C11_Witness ==
    /\ mainpc = "loaded" /\ ~saves[1].err
    /\ Len(articles) = 3
    /\ articles[2].Desc = ""
    /\ Snapshot(articles, nextID) = lin

(***************************************************************************)
(* The file between saves.                                                 *)
(***************************************************************************)
\* call k of saveArticles has truncated the file and has not returned
SaveWriting(k) == saves[k].pc \notin {"create", "done"}

NoSaveWriting == \A k \in 1..Len(saves) : ~SaveWriting(k)

\* no call of saveArticles has returned an error
NoSaveFailed == \A k \in 1..Len(saves) : ~saves[k].err

\* what loadArticles would read from the file now
FileSnapshot == Snapshot(Decode(file.bytes).Articles, Decode(file.bytes).NextID)

AllSavesDone == \A k \in 1..Len(saves) : saves[k].pc = "done"

\* C13: a save that fails, at os.Create or in Encode, does nothing to the
\* store: it holds no lock once it has returned, and when the handlers and
\* the saves have all returned the collection and nextID are what the
\* mutations gave, the lock is free and a handler can take the next request
\* of every kind, also when every save has failed.
C13_FailedSaveHarmless ==
    /\ \A k \in 1..Len(saves) :
         saves[k].pc \in {"create", "rlock", "done"} => SavePid(k) \notin mutexR
    /\ mutexW \in Handlers \cup {NoPid}
    /\ (Quiet /\ AllSavesDone) =>
         /\ mutexW = NoPid /\ mutexR = {}
         /\ Snapshot(articles, nextID) = lin
         /\ IDSeq(articles) = Surviving(inserted, IDs(articles))
         /\ nops < MaxOps =>
              \A h \in Handlers :
                  /\ ENABLED createBegin(h) /\ ENABLED updateBegin(h)
                  /\ ENABLED deleteBegin(h) /\ ENABLED listBegin(h)
                  /\ ENABLED getBegin(h)
    /\ \A h \in Handlers :
         (hpc[h] \in {"lock", "rlock"} /\ AllSavesDone
            /\ \A g \in Handlers : ~Writing(g) /\ hpc[g] # "wait")
           => ENABLED (handlerLock(h) \/ handlerRLock(h))

\* the saves of two mutations have both failed and both mutations are in
\* the store
C13_Witness ==
    /\ Quiet /\ AllSavesDone
    /\ Len(saves) = 2 /\ saves[1].err /\ saves[2].err
    /\ Len(issued) = 1 /\ removed # {}
    /\ issued[1] \in IDs(articles)
    /\ Snapshot(articles, nextID) = lin

(***************************************************************************)
(* The file after the last save.                                           *)
(***************************************************************************)
\* C14: when no request is in progress and every save that was started has
\* returned without error, the file decodes to the collection and nextID
\* that are in memory, so that loadArticles of a next run would set
\* exactly that state.
C14_SavedIsLatest ==
    (Quiet /\ AllSavesDone /\ NoSaveFailed) =>
        /\ CanOpen(file)
        /\ Decode(file.bytes).ok
        /\ FileSnapshot = Snapshot(articles, nextID)
        /\ LoadResult(file, << >>, 1) =
              [err |-> FALSE, Articles |-> articles, NextID |-> nextID]

\* two mutations and their two saves have run and the file holds the
\* store as the second mutation left it
C14_Witness ==
    /\ Quiet /\ AllSavesDone /\ NoSaveFailed
    /\ Len(saves) = 2
    /\ Len(issued) = 1 /\ removed # {}
    /\ FileSnapshot = Snapshot(articles, nextID)
    /\ FileSnapshot = lin

(***************************************************************************)
(* The order in which two saves finish.                                    *)
(***************************************************************************)
\* call k has written its whole stream, or has returned, without error
SaveWritten(k) ==
    /\ ~saves[k].err
    /\ \/ saves[k].pc = "done"
       \/ /\ saves[k].pc = "write"
          /\ saves[k].nmsg = Len(GobMessages(saves[k].data))

\* call j returns without error in this step, a call started after it has
\* returned without error before, and no call is left
ReturnsLast(j) ==
    /\ saves[j].pc # "done"
    /\ \E k \in 1..Len(saves) :
         j < k /\ saves[k].pc = "done" /\ ~saves[k].err
    /\ \A i \in 1..Len(saves) : saves'[i].pc = "done" /\ ~saves'[i].err

\* C15 as stated: when the save of an earlier mutation is the last to
\* finish, after the save of a later mutation, both without error, the file
\* holds a state the store had before and has no longer.
C15_InvertedStep ==
    \A j \in 1..Len(saves) :
        ReturnsLast(j) =>
            /\ Decode(file'.bytes).ok
            /\ FileSnapshot' \in past' \ {lin'}

C15_InversionAsStated == [][C15_InvertedStep]_vars

\* C15: once every save that was started, two or more of them, has written
\* its stream to the end without error, in whichever order they finish, the
\* file decodes to the state the last mutation left; it never holds the state
\* before that mutation.
C15_NoRegression ==
    (Len(saves) >= 2 /\ \A k \in 1..Len(saves) : SaveWritten(k)) =>
        /\ CanOpen(file)
        /\ Decode(file.bytes).ok
        /\ FileSnapshot = lin

\* the save of the second mutation has returned, the save of the first has
\* just written its last message and is still to return, and the file holds
\* the state after the second mutation, which differs from the two before
C15_Witness ==
    /\ Len(saves) = 2
    /\ saves[2].pc = "done" /\ ~saves[2].err
    /\ saves[1].pc = "write" /\ SaveWritten(1)
    /\ Cardinality(past) = 3
    /\ FileSnapshot = lin

(***************************************************************************)
(* Who waits for a save.                                                   *)
(***************************************************************************)
\* handler h has called Lock() and waits for the readers inside to leave
LockWaiting(h) == hpc[h] = "wait"

\* C16 as stated: a mutating handler that has called Lock() never waits for
\* a save; with no List or Get inside the read lock it goes on at once.
C16_NeverBlocksAsStated ==
    \A h \in Handlers :
        (LockWaiting(h) /\ \A g \in Handlers : ~Reading(g)) =>
            ENABLED handlerLockWait(h)

\* C16: os.Create of a save keeps no handler waiting, but the encoding and
\* writing do: no Create, Update or Delete is inside the write lock while a
\* save is between its RLock and its return, and a handler that has called
\* Lock() goes on exactly when no List, Get or save is inside the read lock.
C16_WriterWaitsForEncode ==
    \A h \in Handlers :
        /\ \A k \in 1..Len(saves) : ~(Writing(h) /\ SaveReading(k))
        /\ LockWaiting(h) =>
              (ENABLED handlerLockWait(h) <=>
                 /\ \A g \in Handlers : ~Reading(g)
                 /\ \A k \in 1..Len(saves) : ~SaveReading(k))
        /\ (hpc[h] = "lock" /\ \A g \in Handlers : hpc[g] \in {"idle", "lock"}) =>
              ENABLED handlerLock(h)

\* a save has written its first message and not its last, and a mutating
\* handler, alone, waits in Lock() for it
C16_Witness ==
    \E h \in Handlers, k \in 1..Len(saves) :
        /\ LockWaiting(h)
        /\ \A g \in Handlers \ {h} : hpc[g] = "idle"
        /\ saves[k].pc = "write"
        /\ saves[k].nmsg >= 1 /\ saves[k].nmsg < Len(GobMessages(saves[k].data))
        /\ ~ENABLED handlerLockWait(h)

(***************************************************************************)
(* The lock at the time a save is started.                                 *)
(***************************************************************************)
\* handler h has started its save (go func() { saveArticles() }()) and has
\* not yet returned
Dispatched(h) ==
    /\ hpc[h] = "ret"
    /\ hreq[h].op \in {"create", "update", "delete"}
    /\ hloc[h].status # 404

\* the call of saveArticles that was started last
LastSave == saves[Len(saves)]

\* C17 as stated: while the handler that started a save still holds the
\* write lock, that save has taken no step: it has not opened or truncated
\* the file.
C17_ReleasedFirstAsStated ==
    \A h \in Handlers :
        (Dispatched(h) /\ mutexW = h) => LastSave.pc = "create"

\* C17: a mutating handler starts its save while it still holds the write
\* lock, which it gives back when it returns; until then that save can
\* create (truncate) the file, or fail to, but cannot take the read lock,
\* so it reads nothing and writes nothing.
C17_DispatchedUnderLock ==
    \A h \in Handlers :
        Dispatched(h) =>
            /\ mutexW = h
            /\ Len(saves) >= 1
            /\ \/ LastSave.pc \in {"create", "rlock"}
               \/ LastSave.pc = "done" /\ LastSave.err
            /\ LastSave.pc = "rlock" => ~ENABLED saveRLock(Len(saves))

\* the handler of an update holds the write lock and the save it started
\* has truncated the file, which before held the whole snapshot
C17_Witness ==
    \E h \in Handlers :
        /\ Dispatched(h) /\ mutexW = h
        /\ hreq[h].op = "update"
        /\ Len(saves) = 1
        /\ LastSave.pc = "rlock"
        /\ file = File(TRUE, TRUE, << >>)

(***************************************************************************)
(* Which steps start a save.                                               *)
(***************************************************************************)
\* handler h appends the new article in this step
AppendStep(h) == hpc[h] = "body2" /\ hpc'[h] = "ret"

\* handler h changes the collection in this step: a create, or an update or
\* a delete that finds its id
MutationStep(h) ==
    \/ AppendStep(h)
    \/ BodyStep(h, "update") /\ hreq'[h].id \in IDs(articles)
    \/ BodyStep(h, "delete") /\ hreq'[h].id \in IDs(articles)

\* the calls of saveArticles that have been started and have not returned
Saving == { k \in 1..Len(saves) : saves[k].pc # "done" }

C18_Step ==
    /\ \A h \in Handlers :
         MutationStep(h) =>
            /\ saves' = Append(saves, NewSave(FALSE))
            /\ Saving' = Saving \cup {Len(saves) + 1}
    /\ (\A h \in Handlers : ~MutationStep(h)) =>
            /\ Len(saves') = Len(saves)
            /\ Saving' \subseteq Saving

\* C18: the step in which a Create appends its article, or an Update or a
\* Delete finds its id, starts one new call of saveArticles beside those
\* that are running, and no other step starts one: not a List, a Get, a
\* rejected request, an Update or a Delete of an id that is not there, nor
\* a step of a save.
C18_OneSavePerMutation == [][C18_Step]_vars

\* two requests, both mutations that succeeded, have been answered and
\* their two saves are both between RLock and return
C18_Witness ==
    /\ Len(saves) = 2
    /\ Saving = {1, 2}
    /\ SaveReading(1) /\ SaveReading(2)
    /\ nops = 2
    /\ Quiet

(***************************************************************************)
(* Termination of the saves.  The Go scheduler runs every goroutine that   *)
(* can run: a call of saveArticles that can take a step takes one, and so  *)
(* does a handler that has accepted its request.  Requests arrive or not.  *)
(***************************************************************************)
\* a step of the goroutine of the k-th save
saveRun(k) == k \in 1..Len(saves) /\ saveStep(k)

\* a step of handler h after it has accepted a request
handlerRun(h) == hpc[h] # "idle" /\ handlerStep(h, FewIDs, FewBodies)

Fairness ==
    /\ \A k \in 1..MaxOps : WF_vars(saveRun(k))
    /\ \A h \in Handlers : WF_vars(handlerRun(h))

SpecFair == Init /\ [][Next]_vars /\ Fairness

\* C19: every call of saveArticles that is started returns, with or without
\* an error, and holds the read lock no longer; every handler that has
\* accepted a request returns too, so none of them waits for the lock for
\* ever.
C19_SavesFinish ==
    /\ \A k \in 1..MaxOps :
         (k <= Len(saves)) ~>
             (k <= Len(saves) /\ saves[k].pc = "done" /\ SavePid(k) \notin mutexR)
    /\ \A h \in Handlers : (hpc[h] # "idle") ~> (hpc[h] = "idle")

\* two saves have returned, the first with an error and the second with its
\* stream written, and nobody holds the lock
C19_Witness ==
    /\ Len(saves) = 2
    /\ saves[1].pc = "done" /\ saves[1].err
    /\ saves[2].pc = "done" /\ ~saves[2].err
    /\ mutexR = {} /\ mutexW = NoPid
    /\ Quiet

(***************************************************************************)
(* The id and created_at of an article.  updateArticle decodes the request *)
(* body into an Article, so the body can give an id and timestamps too.    *)
(***************************************************************************)
\* var updateData Article, decoded from a body that gives these fields
UpdateData(t, d, c, id, created) ==
    [Title |-> t, Desc |-> d, Content |-> c, ID |-> id, Created |-> created,
     Updated |-> created]

\* an id that createArticle does not reach and a time that the clock does
\* not reach
OtherID == SampleNextID + MaxOps + 1

OtherTime == MaxClock + 1

\* the bodies a PUT can carry: with or without a title, without an id, with
\* the id of another article or with an id that no article has
UpdatePayloads ==
    { UpdateData(t, "", "", id, created) :
        t \in Texts, id \in {0, 1, OtherID}, created \in {0, OtherTime} }

\* the ids of the requests: a sample article and the first created one
UpdateIDs == {2, SampleNextID}

\* the handlers alone, the PUT bodies giving ids and timestamps
NextUpdate ==
    \/ \E h \in Handlers : handlerStep(h, UpdateIDs, UpdatePayloads)

SpecUpdate == Init /\ [][NextUpdate]_vars

\* the id and created_at of the articles, in the order of the collection
Keys(as) == [i \in 1..Len(as) |-> << as[i].ID, as[i].Created >>]

C20_Step ==
    /\ \/ Keys(articles') = Keys(articles)
       \/ \E h \in Handlers :
            /\ AppendStep(h)
            /\ SubSeq(articles', 1, Len(articles)) = articles
            /\ Len(articles') = Len(articles) + 1
       \/ \E h \in Handlers :
            /\ BodyStep(h, "delete")
            /\ articles' = Without(articles, hreq'[h].id)
    /\ \A h \in Handlers :
         BodyStep(h, "update") =>
            /\ Keys(articles') = Keys(articles)
            /\ hloc'[h].status = 200 =>
                  /\ hloc'[h].article.ID = hreq'[h].id
                  /\ hloc'[h].article \in Range(articles')
                  /\ \E a \in Range(articles) :
                       /\ a.ID = hreq'[h].id
                       /\ a.Created = hloc'[h].article.Created

\* C20: no step changes the id or the created_at of an article that stays
\* in the collection: a step keeps both of every article, or appends a new
\* article after the others, or removes the article of a Delete; an Update
\* keeps both whatever id and timestamps its body gives, and answers with
\* the article under the id of the path and its created_at.
C20_KeysNeverChange == [][C20_Step]_vars

\* the second request is an Update of article 2 by a body that gives
\* another id and another created_at: the article has the title of the
\* body and still its own id and created_at
C20_Witness ==
    \E h \in Handlers :
        /\ hpc[h] = "ret" /\ hreq[h].op = "update" /\ hloc[h].status = 200
        /\ nops = 2 /\ clock = 1
        /\ hreq[h].id = 2
        /\ hreq[h].body.ID = OtherID
        /\ hreq[h].body.Created = OtherTime
        /\ hreq[h].body.Title = "x"
        /\ hloc[h].article.Title = "x"
        /\ hloc[h].article.ID = 2
        /\ hloc[h].article.Created = SampleArticles(0)[2].Created
        /\ Keys(articles) = Keys(SampleArticles(0))

(***************************************************************************)
(* The process ends and the program is started again.  Nothing in main     *)
(* waits for the goroutines of saveArticles: when the process stops, at    *)
(* whatever point, they stop with it, and the file stays as the writes     *)
(* done so far have left it.  The next run starts from the zero values of  *)
(* the package variables and runs initDatabase.                            *)
(***************************************************************************)
crash ==
    /\ mainpc = "serve"
    /\ articles' = << >>
    /\ nextID' = 1
    /\ mutexW' = NoPid
    /\ mutexR' = {}
    /\ mainpc' = "load"
    /\ hpc' = [h \in Handlers |-> "idle"]
    /\ hreq' = [h \in Handlers |-> NoReq]
    /\ hloc' = [h \in Handlers |-> NoLoc]
    /\ saves' = << >>
    /\ applied' = << Snapshot(articles', nextID') >>
    /\ UNCHANGED << file, clock, nops, resp, issued, inserted, removed, lin >>

\* the handlers, the saves, the end of the process and the start of the
\* next run
NextRestart ==
    \/ \E k \in 1..Len(saves) : saveStep(k)
    \/ \E h \in Handlers : handlerStep(h, FewIDs, FewBodies)
    \/ crash
    \/ loadArticles
    \/ createSampleData
    \/ initDone

SpecRestart == Init /\ [][NextRestart]_vars

\* C21: whenever the program serves requests, in its first run or in a later
\* one that has loaded the file, nextID is greater than every id that a
\* Create has returned to its caller so far.
C21_NoReuseAcrossRestart ==
    mainpc = "serve" => \A i \in 1..Len(issued) : issued[i] < nextID

(***************************************************************************)
(* What a save reads, against the mutation that started it.  The runs are  *)
(* those of the handlers that change the collection's length or the        *)
(* counter, createArticle and deleteArticle, and of the saves they start.  *)
(***************************************************************************)
\* one step of request goroutine h serving a POST or a DELETE
writerStep(h) ==
    \/ createBegin(h)
    \/ deleteBegin(h)
    \/ handlerLock(h)
    \/ handlerLockWait(h)
    \/ createAssignID(h)
    \/ createIncrement(h)
    \/ createAppend(h)
    \/ deleteBody(h, FewIDs)
    \/ handlerReturn(h)

NextWriters ==
    \/ \E k \in 1..Len(saves) : saveStep(k)
    \/ \E h \in Handlers : writerStep(h)

SpecWriters == Init /\ [][NextWriters]_vars

\* the store as the mutation that started the k-th save of this run left
\* it: the saves of a run that serves are started by its mutations, one
\* each, and nothing else sets the store anew
AfterMutation(k) == applied[Len(applied) - Len(saves) + k]

\* call k has read articles and nextID into data and not yet returned
HasSnapshot(k) == saves[k].pc \in {"write", "ret"}

\* C22: a save reads only while no handler is inside the write lock, and
\* what the k-th save has read is the store as the k-th mutation, the one
\* that started it, or a later one left it: the state after every mutation
\* applied so far, none of which came after the save took the read lock.
C22_NotOlderThanDispatch ==
    /\ Len(applied) > Len(saves)
    /\ \A k \in 1..Len(saves) :
         /\ SaveReading(k) => \A h \in Handlers : ~Writing(h)
         /\ HasSnapshot(k) =>
              /\ \E j \in k..Len(saves) : saves[k].data = AfterMutation(j)
              /\ saves[k].data = AfterMutation(Len(saves))
              /\ saves[k].data = lin

\* the save of the first mutation took the read lock after the second
\* mutation and has read the store as the second left it
C22_Witness ==
    /\ Len(saves) = 2
    /\ HasSnapshot(1)
    /\ ~saves[1].err
    /\ AfterMutation(1) # AfterMutation(2)
    /\ saves[1].data = AfterMutation(2)

(***************************************************************************)
(* The two halves of what a save reads.                                    *)
(***************************************************************************)
\* the collection and the counter of s fit: ids pairwise distinct and all
\* below the counter
Consistent(s) ==
    /\ \A i, j \in 1..Len(s.Articles) :
         s.Articles[i].ID = s.Articles[j].ID => i = j
    /\ \A i \in 1..Len(s.Articles) : s.Articles[i].ID < s.NextID

\* C23: what a save has read is one state the store has held, collection
\* and counter together: its ids are pairwise distinct and below its
\* counter, and while the save has read the collection and not yet the
\* counter, the counter in memory is still the one that goes with it.
C23_SnapshotConsistent ==
    \A k \in 1..Len(saves) :
        /\ HasSnapshot(k) =>
              /\ saves[k].data \in past
              /\ Consistent(saves[k].data)
        /\ saves[k].pc = "readN" =>
              /\ Snapshot(saves[k].data.Articles, nextID) \in past
              /\ Consistent(Snapshot(saves[k].data.Articles, nextID))

\* a save has read the collection with a created article and the counter
\* after it, and a second Create waits in Lock() for the save to return
C23_Witness ==
    \E k \in 1..Len(saves), h \in Handlers :
        /\ HasSnapshot(k)
        /\ saves[k].pc = "write"
        /\ saves[k].data.NextID = SampleNextID + 1
        /\ IDSeq(saves[k].data.Articles) = << 1, 2, 3, SampleNextID >>
        /\ LockWaiting(h)
        /\ hreq[h].op = "create"
=============================================================================
